---- MODULE Spec2Model ----
(***************************************************************************)
(* Model of the fetch_rates management command                             *)
(* (src/mru_fx/fx/management/commands/fetch_rates.py).                     *)
(*                                                                         *)
(* Two specifications share the pure definitions:                          *)
(*   Spec     the command: invocations of Command.handle against a source  *)
(*            that answers every query nondeterministically, with the      *)
(*            Currency and Rate tables persisting across invocations;      *)
(*   SpecSel  the row selection of _fetch_latest_rate_in_range applied to  *)
(*            every payload of a bounded family.                           *)
(***************************************************************************)
EXTENDS Integers, Sequences, FiniteSets, TLC

VARIABLES
    phase,              \* "idle" | "running" | "done" | "failed"
    error,              \* kind of the exception that ended the invocation
    opts,               \* the options of the current invocation
    quotes,             \* handle: quotes (upper-cased)
    to_dt,              \* handle: to_dt (proleptic Gregorian ordinal)
    lookback_days,      \* handle: lookback_days
    i,                  \* position of the for loop in quotes (1-based)
    current_lookback,   \* handle: current_lookback
    latest,             \* handle: latest (Optional[BcmRateRow])
    stored,             \* handle: stored
    db,                 \* the Currency and Rate tables as the connection sees them
    savepoint,          \* the tables at entry of the atomic block
    sent,               \* the queries issued by the current invocation
    stdout,             \* the lines written by the current invocation
    runs,               \* number of invocations started
    sel_payload,        \* SpecSel: the response handed to the selection
    sel_currency,       \* SpecSel: the currency queried
    sel_rows,           \* SpecSel: the list rows as the loop left it
    sel_result,         \* SpecSel: what the selection gave
    ord_src,            \* SpecOrd: the source, a function of the query
    ord_quotes,         \* SpecOrd: a list of distinct currency codes
    ord_db,             \* SpecOrd: the tables before the run
    ord_out             \* SpecOrd: the run, for each order of the list

vars == << phase, error, opts, quotes, to_dt, lookback_days, i, current_lookback, latest, stored, db, savepoint, sent, stdout,
           runs, sel_payload, sel_currency, sel_rows, sel_result,
           ord_src, ord_quotes, ord_db, ord_out >>

runVars == << phase, error, opts, quotes, to_dt, lookback_days, i, current_lookback, latest, stored, db,
              savepoint, sent, stdout, runs >>

selVars == << sel_payload, sel_currency, sel_rows, sel_result >>

ordVars == << ord_src, ord_quotes, ord_db, ord_out >>

(***************************************************************************)
(* Bounds of the model.                                                    *)
(***************************************************************************)
MaxRuns == 2
MaxItems == 2

(***************************************************************************)
(* JSON values.  A scalar is a tagged record; a dict item records which    *)
(* keys it carries (an absent key is not the same as a null value).        *)
(***************************************************************************)
Str(x) == [t |-> "str", s |-> x, n |-> 0]
Num(k) == [t |-> "int", s |-> "", n |-> k]
Null == [t |-> "null", s |-> "", n |-> 0]

Keys == {"currency", "date", "value", "weight", "nameEnglish"}

\* A JSON array element that is not an object (a string, a number, ...).
NotADict == [isdict |-> FALSE, keys |-> {}, fields |-> [k \in Keys |-> Null]]

\* dict.get(key, default)
Get(item, key, default) ==
    IF key \in item.keys THEN item.fields[key] ELSE default

(***************************************************************************)
(* Python built-ins on the values the model draws.                         *)
(***************************************************************************)
\* str(int) for the integers of the model.
IntStr(k) ==
    CASE k = 0 -> "0"
      [] k = 1 -> "1"
      [] k = 2 -> "2"
      [] k = 40 -> "40"
      [] k = 100 -> "100"
      [] k = -1 -> "-1"
      [] OTHER -> "<int>"

\* str(x)
PyStr(v) ==
    CASE v.t = "str" -> v.s
      [] v.t = "int" -> IntStr(v.n)
      [] OTHER -> "None"

\* str.upper()
Upper(s) ==
    CASE s = "usd" -> "USD"
      [] s = "Usd" -> "USD"
      [] s = "cny" -> "CNY"
      [] s = "eur" -> "EUR"
      [] s = "None" -> "NONE"
      [] OTHER -> s

\* str.strip()
Strip(s) ==
    CASE s = " " -> ""
      [] s = " US Dollar " -> "US Dollar"
      [] s = " https://connect.bcm.mr/api/cours_change_reference " ->
             "https://connect.bcm.mr/api/cours_change_reference"
      [] OTHER -> s

\* Truth value of a JSON value (bool(x)).
Truthy(v) ==
    CASE v.t = "str" -> v.s # ""
      [] v.t = "int" -> v.n # 0
      [] OTHER -> FALSE

\* datetime.date ordinals (datetime._days_before_year, _ymd2ord).
IsLeap(y) == y % 4 = 0 /\ (y % 100 # 0 \/ y % 400 = 0)

DaysInMonth(y, m) ==
    CASE m \in {1, 3, 5, 7, 8, 10, 12} -> 31
      [] m \in {4, 6, 9, 11} -> 30
      [] OTHER -> IF IsLeap(y) THEN 29 ELSE 28

RECURSIVE DaysBeforeMonth(_, _)
DaysBeforeMonth(y, m) ==
    IF m <= 1 THEN 0 ELSE DaysBeforeMonth(y, m - 1) + DaysInMonth(y, m - 1)

DaysBeforeYear(y) ==
    (y - 1) * 365 + ((y - 1) \div 4) - ((y - 1) \div 100) + ((y - 1) \div 400)

ToOrdinal(y, m, d) == DaysBeforeYear(y) + DaysBeforeMonth(y, m) + d

\* The fields strptime(s, "%Y-%m-%d") matches in s; <<>> when s does not
\* match the format.  %m and %d accept one or two digits.
DateFields(s) ==
    CASE s = "2024-03-05" -> <<2024, 3, 5>>
      [] s = "2024-03-07" -> <<2024, 3, 7>>
      [] s = "2024-03-08" -> <<2024, 3, 8>>
      [] s = "2024-03-10" -> <<2024, 3, 10>>
      [] s = "2024-3-9" -> <<2024, 3, 9>>
      [] s = "2024-03-12" -> <<2024, 3, 12>>
      [] s = "2023-01-15" -> <<2023, 1, 15>>
      [] s = "2024-02-30" -> <<2024, 2, 30>>
      [] OTHER -> <<>>

\* _parse_date_yyyy_mm_dd: the date as an ordinal, or ValueError.
_parse_date_yyyy_mm_dd(s) ==
    LET f == DateFields(s) IN
    IF f = <<>> \/ f[2] < 1 \/ f[2] > 12 \/ f[3] < 1
       \/ f[3] > DaysInMonth(f[1], f[2])
    THEN [ok |-> FALSE, val |-> 0]
    ELSE [ok |-> TRUE, val |-> ToOrdinal(f[1], f[2], f[3])]

\* Decimal(s): coefficient and exponent as decimal.Decimal keeps them
\* (Decimal("36.50") and Decimal("36.5") differ in exponent), or
\* InvalidOperation.
DecimalOf(s) ==
    CASE s = "36.5" -> [ok |-> TRUE, coef |-> 365, exp |-> -1]
      [] s = "36.50" -> [ok |-> TRUE, coef |-> 3650, exp |-> -2]
      [] s = "37.25" -> [ok |-> TRUE, coef |-> 3725, exp |-> -2]
      [] s = "5.1" -> [ok |-> TRUE, coef |-> 51, exp |-> -1]
      [] s = "0" -> [ok |-> TRUE, coef |-> 0, exp |-> 0]
      [] s = "1" -> [ok |-> TRUE, coef |-> 1, exp |-> 0]
      [] s = "2" -> [ok |-> TRUE, coef |-> 2, exp |-> 0]
      [] s = "40" -> [ok |-> TRUE, coef |-> 40, exp |-> 0]
      [] s = "100" -> [ok |-> TRUE, coef |-> 100, exp |-> 0]
      [] s = "-1" -> [ok |-> TRUE, coef |-> -1, exp |-> 0]
      [] OTHER -> [ok |-> FALSE, coef |-> 0, exp |-> 0]

\* _to_decimal: Decimal(str(x)), InvalidOperation turned into CommandError.
_to_decimal(x) == DecimalOf(PyStr(x))

RECURSIVE Pow10(_)
Pow10(k) == IF k <= 0 THEN 1 ELSE 10 * Pow10(k - 1)

\* float(Decimal): the number itself, whatever the exponent it was written
\* with; kept in thousandths (the decimals of the model have at most three
\* fractional digits).
FloatOf(dec) == dec.coef * Pow10(dec.exp + 3)

\* int(x) for a non-null JSON value, or ValueError/TypeError.
PyInt(v) ==
    CASE v.t = "int" -> [ok |-> TRUE, val |-> v.n]
      [] v.t = "str" /\ v.s = "0" -> [ok |-> TRUE, val |-> 0]
      [] v.t = "str" /\ v.s = "1" -> [ok |-> TRUE, val |-> 1]
      [] v.t = "str" /\ v.s = "2" -> [ok |-> TRUE, val |-> 2]
      [] v.t = "str" /\ v.s = "100" -> [ok |-> TRUE, val |-> 100]
      [] v.t = "str" /\ v.s = "-1" -> [ok |-> TRUE, val |-> -1]
      [] OTHER -> [ok |-> FALSE, val |-> 0]

(***************************************************************************)
(* _fetch_latest_rate_in_range, after the HTTP call.                       *)
(***************************************************************************)
\* A response body: a JSON array of items, or some other JSON value.
List(items) == [islist |-> TRUE, items |-> items]
NotAList == [islist |-> FALSE, items |-> <<>>]

\* The value of latest when there is no row (Python's None).
None ==
    [isrow |-> FALSE, rate_date |-> 0, currency |-> "",
     value |-> [coef |-> 0, exp |-> 0], weight |-> 0, name_english |-> ""]

BcmRateRow(d, ccy, v, w, name) ==
    [isrow |-> TRUE, rate_date |-> d, currency |-> ccy,
     value |-> [coef |-> v.coef, exp |-> v.exp], weight |-> w,
     name_english |-> name]

\* Mutant of CcyMismatch: the currency filter is dropped.
CcyMismatchNever(item, currency) == FALSE

\* The code of an item, upper-cased.
ItemCcy(item) == Upper(PyStr(Get(item, "currency", Str(""))))

\* The item's code differs from the queried one.
CcyMismatch(item, currency) == ItemCcy(item) # Upper(currency)

\* Mutant of MissingDateOrValue: a null value is not skipped.
MissingDateOnly(d_raw, v_raw) == ~Truthy(d_raw)

\* The test that skips a record without date or value.
MissingDateOrValue(d_raw, v_raw) == ~Truthy(d_raw) \/ v_raw.t = "null"

\* The weight of a record: int(w_raw), 1 when w_raw is None or not a number.
WeightOf(w_raw) ==
    IF w_raw.t = "null" THEN 1
    ELSE IF PyInt(w_raw).ok THEN PyInt(w_raw).val ELSE 1

\* Mutant of BadWeight: a weight of zero is kept.
BadWeightNegativeOnly(w) == w < 0

\* The test that drops a record for its weight.
BadWeight(w) == w <= 0

\* label text of a record: str(item.get("nameEnglish", "") or "").strip()
NameOf(item) ==
    LET raw == Get(item, "nameEnglish", Str("")) IN
    Strip(PyStr(IF Truthy(raw) THEN raw ELSE Str("")))

\* Mutant of ProcessItem: the weight is tested before the date and the
\* value are parsed.
ProcessItemWeightFirst(item, currency) ==
    LET d_raw == Get(item, "date", Null)
        v_raw == Get(item, "value", Null)
        w_raw == Get(item, "weight", Num(1))
        d == _parse_date_yyyy_mm_dd(PyStr(d_raw))
        v == _to_decimal(v_raw)
        w == WeightOf(w_raw)
    IN  IF ~item.isdict THEN [kind |-> "skip", row |-> None]
        ELSE IF CcyMismatch(item, currency) THEN [kind |-> "skip", row |-> None]
        ELSE IF MissingDateOrValue(d_raw, v_raw)
             THEN [kind |-> "skip", row |-> None]
        ELSE IF BadWeight(w) THEN [kind |-> "skip", row |-> None]
        ELSE IF ~d.ok THEN [kind |-> "raise", row |-> None]
        ELSE IF ~v.ok THEN [kind |-> "raise", row |-> None]
        ELSE [kind |-> "row",
              row |-> BcmRateRow(d.val, ItemCcy(item), v, w, NameOf(item))]

\* One pass of the loop body over an item: "skip" (continue), "raise" (the
\* date or the value does not parse) or "row" (a row is appended).
ProcessItem(item, currency) ==
    LET d_raw == Get(item, "date", Null)
        v_raw == Get(item, "value", Null)
        w_raw == Get(item, "weight", Num(1))
        d == _parse_date_yyyy_mm_dd(PyStr(d_raw))
        v == _to_decimal(v_raw)
        w == WeightOf(w_raw)
    IN  IF ~item.isdict THEN [kind |-> "skip", row |-> None]
        ELSE IF CcyMismatch(item, currency) THEN [kind |-> "skip", row |-> None]
        ELSE IF MissingDateOrValue(d_raw, v_raw)
             THEN [kind |-> "skip", row |-> None]
        ELSE IF ~d.ok THEN [kind |-> "raise", row |-> None]
        ELSE IF ~v.ok THEN [kind |-> "raise", row |-> None]
        ELSE IF BadWeight(w) THEN [kind |-> "skip", row |-> None]
        ELSE [kind |-> "row",
              row |-> BcmRateRow(d.val, ItemCcy(item), v, w, NameOf(item))]

\* The for loop over the payload from item k on, rows being the list built
\* so far: the rows, or raised when an item raises.
RECURSIVE ScanItems(_, _, _, _)
ScanItems(items, currency, k, rows) ==
    IF k > Len(items) THEN [raised |-> FALSE, rows |-> rows]
    ELSE LET r == ProcessItem(items[k], currency) IN
         IF r.kind = "raise" THEN [raised |-> TRUE, rows |-> rows]
         ELSE IF r.kind = "row"
              THEN ScanItems(items, currency, k + 1, Append(rows, r.row))
              ELSE ScanItems(items, currency, k + 1, rows)

\* Mutant of Later: among the rows of the greatest date the last one wins.
LaterOrSame(r, best) == r.rate_date >= best.rate_date

\* Mutant of Later: the earliest row wins.
LaterReversed(r, best) == r.rate_date < best.rate_date

\* The comparison max() makes between the best row so far and the next one.
Later(r, best) == r.rate_date > best.rate_date

\* max(rows, key=lambda r: r.rate_date): the first row among those with the
\* greatest key.
RECURSIVE MaxByDate(_, _, _)
MaxByDate(rows, k, best) ==
    IF k > Len(rows) THEN best
    ELSE MaxByDate(rows, k + 1, IF Later(rows[k], best) THEN rows[k] ELSE best)

\* What _fetch_latest_rate_in_range makes of a response body:
\* "none" (returns None), "row" (returns a row) or "raise".
SelectLatest(payload, currency) ==
    IF ~payload.islist \/ payload.items = <<>>
    THEN [kind |-> "none", row |-> None]
    ELSE LET scan == ScanItems(payload.items, currency, 1, <<>>) IN
         IF scan.raised THEN [kind |-> "raise", row |-> None]
         ELSE IF scan.rows = <<>> THEN [kind |-> "none", row |-> None]
         ELSE [kind |-> "row", row |-> MaxByDate(scan.rows, 2, scan.rows[1])]

(***************************************************************************)
(* The Currency and Rate tables (fx.models) and update_or_create.          *)
(* A table is the list of its rows in creation order; a row's primary key  *)
(* is its position.                                                        *)
(***************************************************************************)
EmptyDb == [currency |-> <<>>, rate |-> <<>>]

CurrencyMatches(tbl, code) == {k \in 1..Len(tbl) : tbl[k].code = code}

RateMatches(tbl, pk, d) ==
    {k \in 1..Len(tbl) : tbl[k].currency = pk /\ tbl[k].date = d}

\* Currency.objects.update_or_create(code=code, defaults={"label": label}):
\* the table afterwards and the primary key of the object returned; not ok
\* when several rows match (MultipleObjectsReturned).
CurrencyUpdateOrCreate(tbl, code, label) ==
    LET m == CurrencyMatches(tbl, code) IN
    IF m = {}
    THEN [ok |-> TRUE, pk |-> Len(tbl) + 1,
          tbl |-> Append(tbl, [code |-> code, label |-> label])]
    ELSE IF Cardinality(m) = 1
    THEN LET k == CHOOSE x \in m : TRUE IN
         [ok |-> TRUE, pk |-> k, tbl |-> [tbl EXCEPT ![k].label = label]]
    ELSE [ok |-> FALSE, pk |-> 0, tbl |-> tbl]

\* Mutant of RateUpdateOrCreate: a row is created whether or not one exists.
RateAlwaysCreate(tbl, pk, d, unit, price) ==
    [ok |-> TRUE,
     tbl |-> Append(tbl, [currency |-> pk, date |-> d,
                          unit |-> unit, price |-> price])]

\* Rate.objects.update_or_create(currency=pk, date=d,
\*                               defaults={"unit": unit, "price": price})
RateUpdateOrCreate(tbl, pk, d, unit, price) ==
    LET m == RateMatches(tbl, pk, d) IN
    IF m = {}
    THEN [ok |-> TRUE,
          tbl |-> Append(tbl, [currency |-> pk, date |-> d,
                               unit |-> unit, price |-> price])]
    ELSE IF Cardinality(m) = 1
    THEN LET k == CHOOSE x \in m : TRUE IN
         [ok |-> TRUE,
          tbl |-> [tbl EXCEPT ![k].unit = unit, ![k].price = price]]
    ELSE [ok |-> FALSE, tbl |-> tbl]

\* The label handle gives a currency: latest.name_english or latest.currency
LabelOf(row) == IF row.name_english # "" THEN row.name_english ELSE row.currency

\* Mutant of RateDateOf: the Rate is keyed by the target date.
RateDateIsTarget(row, target) == target

\* The date handle keys the Rate by.
RateDateOf(row, target) == row.rate_date

\* The two upserts handle makes for a found row.
Upsert(d, row, target) ==
    LET c == CurrencyUpdateOrCreate(d.currency, row.currency, LabelOf(row))
        r == RateUpdateOrCreate(d.rate, c.pk, RateDateOf(row, target),
                                row.weight, FloatOf(row.value))
    IN  IF ~c.ok THEN [ok |-> FALSE, db |-> d]
        ELSE IF ~r.ok
        THEN [ok |-> FALSE, db |-> [currency |-> c.tbl, rate |-> d.rate]]
        ELSE [ok |-> TRUE, db |-> [currency |-> c.tbl, rate |-> r.tbl]]

\* Mutant of Rollback: the writes made before the exception stay.
RollbackKeepsWrites(d, sp) == d

\* transaction.atomic: what the tables are once an exception has left the
\* block, given the tables at the time (d) and at entry (sp).
Rollback(d, sp) == sp

(***************************************************************************)
(* The inputs of the model.                                                *)
(***************************************************************************)
Absent == [t |-> "absent", s |-> "", n |-> 0]

\* A JSON object; a field given as Absent is a key the object lacks.
Item(c, d, v, w, nm) ==
    LET f == [k \in Keys |->
                CASE k = "currency" -> c
                  [] k = "date" -> d
                  [] k = "value" -> v
                  [] k = "weight" -> w
                  [] OTHER -> nm]
    IN  [isdict |-> TRUE,
         keys |-> {k \in Keys : f[k] # Absent},
         fields |-> [k \in Keys |-> IF f[k] = Absent THEN Null ELSE f[k]]]

\* The record of the specification's scenario.
UsDollar0308 ==
    Item(Str("USD"), Str("2024-03-08"), Str("36.5"), Num(1), Str("US Dollar"))

\* The options an invocation may be given.
QuoteLists ==
    {<<>>, <<"USD">>, <<"usd", "CNY">>, <<"CNY", "USD">>, <<"USD", "USD">>}
ApiBase == " https://connect.bcm.mr/api/cours_change_reference "
ToDate == "2024-03-10"

\* --lookback-days and --max-lookback-days.
LookbackChoices ==
    {<<0, 365>>, <<30, 365>>, <<73, 365>>, <<400, 365>>, <<30, 20>>}

Opt(q, a, t, lb) ==
    [quotes |-> q, api_base |-> a, to_date |-> t, lookback_days |-> lb[1],
     max_lookback_days |-> lb[2]]

Options ==
    {Opt(q, ApiBase, ToDate, lb) : q \in QuoteLists, lb \in LookbackChoices}
    \cup {Opt(<<"USD">>, " ", ToDate, <<30, 365>>),
          Opt(<<"USD">>, ApiBase, "10/03/2024", <<30, 365>>),
          Opt(<<"USD">>, ApiBase, ToDate, <<30, 60>>)}

NoOptions ==
    [quotes |-> <<>>, api_base |-> "", to_date |-> "", lookback_days |-> 0,
     max_lookback_days |-> 0]

\* What the source may answer to a query of the command: a failed call
\* (network error, non-2xx status, body that is not JSON) or a JSON body.
Responses ==
    {[http |-> "error", body |-> NotAList]}
    \cup
    {[http |-> "ok", body |-> b] : b \in
        {NotAList,
         List(<<>>),
         List(<<UsDollar0308>>),
         List(<<Item(Str("USD"), Str("2024-03-05"), Str("40"), Num(1),
                     Str("US Dollar")),
                Item(Str("USD"), Str("2024-03-07"), Str("37.25"), Num(1),
                     Str("US Dollar"))>>),
         List(<<Item(Str("usd"), Str("2024-03-08"), Str("36.50"), Num(100),
                     Absent)>>),
         List(<<Item(Str("CNY"), Str("2024-03-07"), Str("5.1"), Absent,
                     Str(""))>>),
         List(<<Item(Str("USD"), Str("2024/03/08"), Str("36.5"), Num(1),
                     Str("US Dollar"))>>),
         List(<<Item(Str("CNY"), Str("2024-03-12"), Str("5.1"), Num(1),
                     Str("Yuan"))>>)}}

(***************************************************************************)
(* Command.handle                                                          *)
(***************************************************************************)
\* handle: max_lookback_days, as handle sets it.
max_lookback_days == 365

Min(a, b) == IF a <= b THEN a ELSE b

\* Mutant of Searching: the loop goes on after a row was found.
SearchingIgnoresRow(cur, lat) == cur <= max_lookback_days

\* The condition of the while loop.
Searching(cur, lat) == cur <= max_lookback_days /\ ~lat.isrow

\* The window after a query that gave no row.
Widen(cur, step) == Min(cur + step, max_lookback_days + 1)

\* Mutant of FirstWindow: the window a currency's search starts from is the
\* one the previous search ended with.
FirstWindowCarried(lb, carried) == carried

\* The window a currency's search starts from, carried being the value
\* current_lookback had before: current_lookback = lookback_days.
FirstWindow(lb, carried) == lb

\* SpecOrd: no order of the list has been run yet.
NotRun == [done |-> FALSE, by |-> <<>>]

\* The test on the lookback options; TRUE when handle rejects them.  The
\* caller's --max-lookback-days, max_opt, is not read.
BadLookback(lb, max_opt) == lb <= 0 \/ max_lookback_days < lb

Init ==
    /\ phase = "idle"
    /\ error = ""
    /\ opts = NoOptions
    /\ quotes = <<>>
    /\ to_dt = 0
    /\ lookback_days = 0
    /\ i = 1
    /\ current_lookback = 0
    /\ latest = None
    /\ stored = 0
    /\ db = EmptyDb
    /\ savepoint = EmptyDb
    /\ sent = <<>>
    /\ stdout = <<>>
    /\ runs = 0
    /\ sel_payload = NotAList
    /\ sel_currency = ""
    /\ sel_rows = <<>>
    /\ sel_result = [kind |-> "pending", row |-> None]
    /\ ord_src = <<>>
    /\ ord_quotes = <<>>
    /\ ord_db = EmptyDb
    /\ ord_out = NotRun

\* An invocation may start when none is running.
CanInvoke == phase # "running" /\ runs < MaxRuns

\* The state every invocation starts from: the atomic block is entered.
Enter(o) ==
    /\ opts' = o
    /\ runs' = runs + 1
    /\ quotes' = [k \in 1..Len(o.quotes) |-> Upper(o.quotes[k])]
    /\ savepoint' = db
    /\ sent' = <<>>
    /\ stdout' = <<>>
    /\ stored' = 0
    /\ i' = 1
    /\ latest' = None
    /\ UNCHANGED << selVars, ordVars >>

\* handle raises before the loop: the exception leaves the atomic block.
Reject(o, why) ==
    /\ Enter(o)
    /\ phase' = "failed"
    /\ error' = why
    /\ db' = Rollback(db, db)
    /\ UNCHANGED << to_dt, lookback_days, current_lookback >>

\* Missing BCM API base URL.
MissingApiBase ==
    \E o \in Options :
        /\ CanInvoke
        /\ Strip(o.api_base) = ""
        /\ Reject(o, "config")

\* --to-date does not parse.
BadToDate ==
    \E o \in Options :
        /\ CanInvoke
        /\ Strip(o.api_base) # ""
        /\ ~_parse_date_yyyy_mm_dd(Strip(o.to_date)).ok
        /\ Reject(o, "to_date")

\* The lookback options are rejected.
LookbackRejected ==
    \E o \in Options :
        /\ CanInvoke
        /\ Strip(o.api_base) # ""
        /\ _parse_date_yyyy_mm_dd(Strip(o.to_date)).ok
        /\ BadLookback(o.lookback_days, o.max_lookback_days)
        /\ Reject(o, "config")

\* The options are accepted and the loop over quotes is entered.
Begin ==
    \E o \in Options :
        /\ CanInvoke
        /\ Strip(o.api_base) # ""
        /\ _parse_date_yyyy_mm_dd(Strip(o.to_date)).ok
        /\ ~BadLookback(o.lookback_days, o.max_lookback_days)
        /\ Enter(o)
        /\ phase' = "running"
        /\ error' = ""
        /\ to_dt' = _parse_date_yyyy_mm_dd(Strip(o.to_date)).val
        /\ lookback_days' = o.lookback_days
        /\ current_lookback' = FirstWindow(o.lookback_days, current_lookback)
        /\ UNCHANGED db

InLoop == phase = "running" /\ i <= Len(quotes)

\* The query the loop body is about to send.
Query ==
    [currency |-> Upper(quotes[i]), from |-> to_dt - current_lookback,
     to |-> to_dt]

\* The query as the log of calls keeps it: with how the HTTP call ended.
Call(http) ==
    [currency |-> Query.currency, from |-> Query.from, to |-> Query.to,
     http |-> http]

\* An exception leaves handle: the atomic block rolls back.
Abort(why) ==
    /\ phase' = "failed"
    /\ error' = why
    /\ db' = Rollback(db, savepoint)
    /\ UNCHANGED << opts, quotes, to_dt, lookback_days, i, current_lookback,
                    latest, stored, savepoint, stdout, runs >>
    /\ UNCHANGED << selVars, ordVars >>

\* The for loop moves to the next currency.
NextCurrency ==
    /\ i' = i + 1
    /\ latest' = None
    /\ current_lookback' =
          IF i + 1 <= Len(quotes)
          THEN FirstWindow(lookback_days, current_lookback)
          ELSE current_lookback
    /\ sent' = IF i + 1 <= Len(quotes) THEN <<>> ELSE sent

\* Mutant of QueryTransportError: a failed call counts as "no data" and the
\* window is widened.
QueryTransportErrorWidens ==
    /\ InLoop
    /\ Searching(current_lookback, latest)
    /\ \E r \in Responses : r.http = "error"
    /\ sent' = Append(sent, Call("error"))
    /\ current_lookback' = Min(current_lookback + lookback_days,
                               max_lookback_days + 1)
    /\ UNCHANGED << phase, error, opts, quotes, to_dt, lookback_days, i,
                    latest, stored, db, savepoint, stdout, runs >>
    /\ UNCHANGED << selVars, ordVars >>

\* A query whose HTTP call fails (_http_get_json raises).
QueryTransportError ==
    /\ InLoop
    /\ Searching(current_lookback, latest)
    /\ \E r \in Responses : r.http = "error"
    /\ sent' = Append(sent, Call("error"))
    /\ Abort("transport")

\* A query whose body holds a record that does not parse.
QueryParseError ==
    /\ InLoop
    /\ Searching(current_lookback, latest)
    /\ \E r \in Responses :
          /\ r.http = "ok"
          /\ SelectLatest(r.body, quotes[i]).kind = "raise"
    /\ sent' = Append(sent, Call("ok"))
    /\ Abort("parse")

\* A query that gives no row: the window is widened.
QueryNoData ==
    /\ InLoop
    /\ Searching(current_lookback, latest)
    /\ \E r \in Responses :
          /\ r.http = "ok"
          /\ SelectLatest(r.body, quotes[i]).kind = "none"
    /\ sent' = Append(sent, Call("ok"))
    /\ current_lookback' = Widen(current_lookback, lookback_days)
    /\ UNCHANGED << phase, error, opts, quotes, to_dt, lookback_days, i,
                    latest, stored, db, savepoint, stdout, runs >>
    /\ UNCHANGED << selVars, ordVars >>

\* A query that gives a row.
QueryFound ==
    /\ InLoop
    /\ Searching(current_lookback, latest)
    /\ \E r \in Responses :
          /\ r.http = "ok"
          /\ SelectLatest(r.body, quotes[i]).kind = "row"
          /\ latest' = SelectLatest(r.body, quotes[i]).row
    /\ sent' = Append(sent, Call("ok"))
    /\ UNCHANGED << phase, error, opts, quotes, to_dt, lookback_days, i,
                    current_lookback, stored, db, savepoint, stdout, runs >>
    /\ UNCHANGED << selVars, ordVars >>

\* A line of output: its kind, the currency and the row it is about, and
\* the first number it prints.
Line(kind, ccy, row, n) == [kind |-> kind, ccy |-> ccy, row |-> row, n |-> n]

\* Mutant of NotFound: an exhausted search is an error that ends the run.
NotFoundRaises ==
    /\ InLoop
    /\ ~Searching(current_lookback, latest)
    /\ ~latest.isrow
    /\ UNCHANGED sent
    /\ Abort("notfound")

\* The search is exhausted: a warning, and on to the next currency.
NotFound ==
    /\ InLoop
    /\ ~Searching(current_lookback, latest)
    /\ ~latest.isrow
    /\ stdout' = Append(stdout, Line("warning", quotes[i], None,
                                     max_lookback_days))
    /\ NextCurrency
    /\ UNCHANGED << phase, error, opts, quotes, to_dt, lookback_days, stored,
                    db, savepoint, runs >>
    /\ UNCHANGED << selVars, ordVars >>

\* A row was found: Currency and Rate are upserted.
Persist ==
    /\ InLoop
    /\ latest.isrow
    /\ LET u == Upsert(db, latest, to_dt) IN
       IF u.ok
       THEN /\ db' = u.db
            /\ stored' = stored + 1
            /\ stdout' = Append(stdout, Line("stored", quotes[i], latest,
                                             latest.weight))
            /\ NextCurrency
            /\ UNCHANGED << phase, error, opts, quotes, to_dt, lookback_days,
                            savepoint, runs >>
            /\ UNCHANGED << selVars, ordVars >>
       ELSE /\ db' = Rollback(u.db, savepoint)
            /\ phase' = "failed"
            /\ error' = "db"
            /\ UNCHANGED << opts, quotes, to_dt, lookback_days, i,
                            current_lookback, latest, stored, savepoint, sent,
                            stdout, runs >>
            /\ UNCHANGED << selVars, ordVars >>

\* The loop is over: handle returns and the atomic block commits.
Finish ==
    /\ phase = "running"
    /\ i > Len(quotes)
    /\ phase' = "done"
    /\ stdout' = Append(stdout, Line("done", "", None, stored))
    /\ UNCHANGED << error, opts, quotes, to_dt, lookback_days, i,
                    current_lookback, latest, stored, db, savepoint, sent,
                    runs >>
    /\ UNCHANGED << selVars, ordVars >>

Next ==
    \/ MissingApiBase
    \/ BadToDate
    \/ LookbackRejected
    \/ Begin
    \/ QueryTransportError
    \/ QueryParseError
    \/ QueryNoData
    \/ QueryFound
    \/ NotFound
    \/ Persist
    \/ Finish

Spec == Init /\ [][Next]_vars

(***************************************************************************)
(* SpecSel: _fetch_latest_rate_in_range on every body of a bounded family. *)
(***************************************************************************)
\* Records that differ from a well-formed one in one field, and a few that
\* differ in two.
Usd(d, v, w, nm) == Item(Str("USD"), d, v, w, nm)

SelItems ==
    {Item(c, Str("2024-03-07"), Str("36.5"), Num(1), Str("US Dollar")) :
        c \in {Str("usd"), Str("CNY"), Null, Absent}}
    \cup
    {Usd(d, Str("36.5"), Num(1), Str("US Dollar")) :
        d \in {Str("2024-03-05"), Str("2024-03-07"), Str("2024-3-9"),
               Str("2024-02-30"), Str("yesterday"), Str(""), Null, Absent}}
    \cup
    {Usd(Str("2024-03-05"), v, Num(1), Str("US Dollar")) :
        v \in {Str("36.50"), Str("abc"), Str(""), Null, Absent, Num(40)}}
    \cup
    {Usd(Str("2024-03-07"), Str("37.25"), w, Str("US Dollar")) :
        w \in {Absent, Null, Str("abc"), Str("2"), Num(0), Num(-1), Num(100)}}
    \cup
    {Usd(Str("2024-03-07"), Str("5.1"), Num(2), nm) :
        nm \in {Absent, Null, Str(""), Str(" US Dollar ")}}
    \cup
    {Item(Str("CNY"), Str("2024-03-12"), Str("5.1"), Num(1), Str("Yuan")),
     Item(Str("CNY"), Str("yesterday"), Str("abc"), Num(1), Str("Yuan")),
     Usd(Str("yesterday"), Str("36.5"), Num(0), Str("US Dollar")),
     NotADict}

SelBodies ==
    {NotAList} \cup
    UNION {{List(q) : q \in [1..n -> SelItems]} : n \in 0..MaxItems}

SelCurrencies == {"USD", "usd"}

InitSel ==
    /\ phase = "idle"
    /\ error = ""
    /\ opts = NoOptions
    /\ quotes = <<>>
    /\ to_dt = 0
    /\ lookback_days = 0
    /\ i = 1
    /\ current_lookback = 0
    /\ latest = None
    /\ stored = 0
    /\ db = EmptyDb
    /\ savepoint = EmptyDb
    /\ sent = <<>>
    /\ stdout = <<>>
    /\ runs = 0
    /\ sel_payload \in SelBodies
    /\ sel_currency \in SelCurrencies
    /\ sel_rows = <<>>
    /\ sel_result = [kind |-> "pending", row |-> None]
    /\ ord_src = <<>>
    /\ ord_quotes = <<>>
    /\ ord_db = EmptyDb
    /\ ord_out = NotRun

\* The call: the response body is reduced to a row, None or an exception.
Select ==
    /\ sel_result.kind = "pending"
    /\ sel_result' = SelectLatest(sel_payload, sel_currency)
    /\ sel_rows' =
          IF sel_payload.islist
          THEN ScanItems(sel_payload.items, sel_currency, 1, <<>>).rows
          ELSE <<>>
    /\ UNCHANGED << sel_payload, sel_currency >>
    /\ UNCHANGED << runVars, ordVars >>

NextSel == Select

SpecSel == InitSel /\ [][NextSel]_vars

(***************************************************************************)
(* SpecOrd: handle as a function of the list of currencies, run in every   *)
(* order of the list against one source and from the same tables.          *)
(***************************************************************************)
\* The while loop for one currency against the source src, the window being
\* cur: the row found, "none" when the search is exhausted, "raise" when the
\* call or the parsing raises; with the window the loop ended at.
RECURSIVE Search(_, _, _, _, _)
Search(src, ccy, target, lb, cur) ==
    IF ~Searching(cur, None)
    THEN [kind |-> "none", row |-> None, cur |-> cur]
    ELSE LET r == src[[currency |-> Upper(ccy), from |-> target - cur,
                       to |-> target]]
         IN  IF r.http = "error"
             THEN [kind |-> "raise", row |-> None, cur |-> cur]
             ELSE LET s == SelectLatest(r.body, ccy) IN
                  IF s.kind = "none"
                  THEN Search(src, ccy, target, lb, Widen(cur, lb))
                  ELSE [kind |-> s.kind, row |-> s.row, cur |-> cur]

\* The for loop of handle from the k-th currency of qs on; sp is the tables
\* at entry of the atomic block, st the tables, the outcomes so far and the
\* value of current_lookback.
RECURSIVE HandleFrom(_, _, _, _, _, _, _)
HandleFrom(src, qs, k, target, lb, sp, st) ==
    IF k > Len(qs)
    THEN [ok |-> TRUE, db |-> st.db, outcomes |-> st.outcomes]
    ELSE LET f == Search(src, qs[k], target, lb, FirstWindow(lb, st.cur))
             u == Upsert(st.db, f.row, target)
             o == Append(st.outcomes,
                         [ccy |-> qs[k], kind |-> f.kind, row |-> f.row])
         IN  IF f.kind = "raise"
             THEN [ok |-> FALSE, db |-> Rollback(st.db, sp),
                   outcomes |-> st.outcomes]
             ELSE IF f.kind = "none"
             THEN HandleFrom(src, qs, k + 1, target, lb, sp,
                             [db |-> st.db, outcomes |-> o, cur |-> f.cur])
             ELSE IF ~u.ok
             THEN [ok |-> FALSE, db |-> Rollback(u.db, sp),
                   outcomes |-> st.outcomes]
             ELSE HandleFrom(src, qs, k + 1, target, lb, sp,
                             [db |-> u.db, outcomes |-> o, cur |-> f.cur])

\* handle with accepted options o, the source src and the tables d.
Handle(src, o, d) ==
    HandleFrom(src, [k \in 1..Len(o.quotes) |-> Upper(o.quotes[k])], 1,
               _parse_date_yyyy_mm_dd(Strip(o.to_date)).val, o.lookback_days,
               d, [db |-> d, outcomes |-> <<>>, cur |-> o.lookback_days])

\* The options of the runs compared, but for --quotes: two windows, 150 and
\* 300 days, are queried before the search gives up.
OrdOption(q) == Opt(q, ApiBase, ToDate, <<150, 365>>)

OrdCodes == {"USD", "CNY", "EUR"}

\* The lists of distinct codes.
OrdLists ==
    {q \in UNION {[1..n -> OrdCodes] : n \in 0..Cardinality(OrdCodes)} :
        \A j, k \in 1..Len(q) : q[j] = q[k] => j = k}

\* The orders a list can be processed in.
Orders(q) ==
    {p \in [1..Len(q) -> {q[k] : k \in 1..Len(q)}] :
        \A j, k \in 1..Len(q) : p[j] = p[k] => j = k}

\* The queries handle can send for these options.
OrdQueries ==
    LET o == OrdOption(<<>>)
        t == _parse_date_yyyy_mm_dd(Strip(o.to_date)).val
    IN  {[currency |-> c, from |-> t - w, to |-> t] :
            c \in OrdCodes,
            w \in {x \in 1..max_lookback_days : x % o.lookback_days = 0}}

\* What the source answers to the query q: a failed call, an empty list, or
\* a record of the currency asked, dated by the range asked.
OrdAnswer(q, kind) ==
    CASE kind = "error" -> [http |-> "error", body |-> NotAList]
      [] kind = "empty" -> [http |-> "ok", body |-> List(<<>>)]
      [] OTHER ->
           [http |-> "ok",
            body |-> List(<<Item(Str(q.currency),
                                 IF q.to - q.from = OrdOption(<<>>).lookback_days
                                 THEN Str("2024-03-08") ELSE Str("2024-03-05"),
                                 Str("36.5"), Num(1), Absent)>>)]

\* The sources: every way of answering the queries.
OrdSources ==
    {[q \in OrdQueries |-> OrdAnswer(q, sh[q])] :
        sh \in [OrdQueries -> {"error", "empty", "row"}]}

\* The tables before the run: empty, or left by earlier runs.
OrdDbs ==
    {EmptyDb,
     [currency |-> <<[code |-> "EUR", label |-> "Euro"],
                     [code |-> "USD", label |-> "US Dollar"]>>,
      rate |-> <<[currency |-> 2,
                  date |-> _parse_date_yyyy_mm_dd("2024-03-08").val,
                  unit |-> 100, price |-> 37250]>>]}

InitOrd ==
    /\ phase = "idle"
    /\ error = ""
    /\ opts = NoOptions
    /\ quotes = <<>>
    /\ to_dt = 0
    /\ lookback_days = 0
    /\ i = 1
    /\ current_lookback = 0
    /\ latest = None
    /\ stored = 0
    /\ db = EmptyDb
    /\ savepoint = EmptyDb
    /\ sent = <<>>
    /\ stdout = <<>>
    /\ runs = 0
    /\ sel_payload = NotAList
    /\ sel_currency = ""
    /\ sel_rows = <<>>
    /\ sel_result = [kind |-> "pending", row |-> None]
    /\ ord_src \in OrdSources
    /\ ord_quotes \in OrdLists
    /\ ord_db \in OrdDbs
    /\ ord_out = NotRun

\* The command is run on the list in each of its orders.
RunOrders ==
    /\ ~ord_out.done
    /\ ord_out' =
          [done |-> TRUE,
           by |-> [p \in Orders(ord_quotes) |->
                      Handle(ord_src, OrdOption(p), ord_db)]]
    /\ UNCHANGED << ord_src, ord_quotes, ord_db >>
    /\ UNCHANGED << runVars, selVars >>

NextOrd == RunOrders

SpecOrd == InitOrd /\ [][NextOrd]_vars

(***************************************************************************)
(* Properties.                                                             *)
(***************************************************************************)
Last(q) == q[Len(q)]

\* The window of a query sent: the days between its from and its to.
WindowOf(q) == q.to - q.from

\* The search for the current currency has given up: the loop is left
\* without a row.
GaveUp == InLoop /\ ~latest.isrow /\ ~Searching(current_lookback, latest)

\* C1: when every query for a currency gave no valid row, the windows
\* queried are initialLookbackDays, 2*initialLookbackDays, ... and the last
\* query before giving up uses a window of exactly maxLookbackDays (with 30
\* and 365: 30, 60, ..., and a final window of 365).  Stated for the
\* invocations whose maximum lookback is the one handle uses.
C1_LastWindowIsMax ==
    (GaveUp /\ opts.max_lookback_days = max_lookback_days) =>
        /\ sent # <<>>
        /\ \A k \in 1..(Len(sent) - 1) : WindowOf(sent[k]) = k * lookback_days
        /\ WindowOf(Last(sent)) = opts.max_lookback_days

\* The stored lines of the output, in order: the rows the invocation has
\* upserted.
StoredLines == {k \in 1..Len(stdout) : stdout[k].kind = "stored"}

\* The row of stored line k is still the last one written for its currency
\* and date.
LastForKey(k) ==
    \A j \in StoredLines :
        j > k => \/ stdout[j].row.currency # stdout[k].row.currency
                 \/ stdout[j].row.rate_date # stdout[k].row.rate_date

\* The tables hold a Currency for the row, and a Rate for the row's date.
Visible(d, row) ==
    \E c \in 1..Len(d.currency) :
        /\ d.currency[c].code = row.currency
        /\ \E r \in 1..Len(d.rate) :
              d.rate[r].currency = c /\ d.rate[r].date = row.rate_date

\* The tables hold the row's own unit and price under its key.
HoldsValues(d, row) ==
    \E c \in 1..Len(d.currency) :
        /\ d.currency[c].code = row.currency
        /\ \E r \in 1..Len(d.rate) :
              /\ d.rate[r].currency = c
              /\ d.rate[r].date = row.rate_date
              /\ d.rate[r].unit = row.weight
              /\ d.rate[r].price * Pow10(0 - row.value.exp)
                    = row.value.coef * 1000

\* C2: a run is all-or-nothing.  After a hard error the tables are what
\* they were when the run started (no upsert of the run is visible); after
\* a run without hard error every upsert made for a resolved currency is in
\* the tables (with its values unless a later upsert of the run rewrote the
\* same key).
C2_AllOrNothing ==
    /\ phase = "failed" => db = savepoint
    /\ phase = "done" =>
          /\ Cardinality(StoredLines) = stored
          /\ \A k \in StoredLines :
                /\ Visible(db, stdout[k].row)
                /\ LastForKey(k) => HoldsValues(db, stdout[k].row)

\* A hard error struck after an upsert of the same run had changed the
\* tables.
C2_Witness ==
    /\ phase = "failed"
    /\ error \in {"transport", "parse"}
    /\ stored >= 1
    /\ i = 2
    /\ savepoint = EmptyDb

(***************************************************************************)
(* Properties of the selection (SpecSel).  The classification of records   *)
(* below is written from the claims, not from the loop body.               *)
(***************************************************************************)
SelDone == sel_result.kind # "pending"

SelItemsOf == IF sel_payload.islist THEN sel_payload.items ELSE <<>>

Has(item, key) == key \in item.keys /\ item.fields[key].t # "null"

\* The record is for the queried currency.
Matches(item) ==
    /\ item.isdict
    /\ Upper(PyStr(IF "currency" \in item.keys THEN item.fields["currency"]
                   ELSE Str("")))
          = Upper(sel_currency)

\* The record's date is present (resp. present and a date).
DatePresent(item) == Has(item, "date") /\ Truthy(item.fields["date"])
DateParses(item) ==
    DatePresent(item) /\ _parse_date_yyyy_mm_dd(PyStr(item.fields["date"])).ok
DateOf(item) == _parse_date_yyyy_mm_dd(PyStr(item.fields["date"])).val

\* The record's value is present (resp. present and a decimal).
ValuePresent(item) == Has(item, "value")
ValueParses(item) ==
    ValuePresent(item) /\ DecimalOf(PyStr(item.fields["value"])).ok

\* The record's weight is absent (or null), or is no number.
WeightNumeric(item) == Has(item, "weight") /\ PyInt(item.fields["weight"]).ok
EffectiveWeight(item) ==
    IF WeightNumeric(item) THEN PyInt(item.fields["weight"]).val ELSE 1

\* A valid row: matching currency, present and parseable date and value,
\* weight >= 1.
Valid(item) ==
    Matches(item) /\ DateParses(item) /\ ValueParses(item)
    /\ EffectiveWeight(item) >= 1

ValidAt == {k \in 1..Len(SelItemsOf) : Valid(SelItemsOf[k])}
ValidDates == {DateOf(SelItemsOf[k]) : k \in ValidAt}

\* A record of the queried currency whose date and value are present and
\* one of them does not parse.
Unparsable(item) ==
    /\ Matches(item)
    /\ DatePresent(item)
    /\ ValuePresent(item)
    /\ ~DateParses(item) \/ ~ValueParses(item)

AnyUnparsable == \E k \in 1..Len(SelItemsOf) : Unparsable(SelItemsOf[k])

\* C3: when the valid rows of a response carry more than one distinct
\* date, the row returned has the greatest date among the valid rows: no
\* valid row is later.  (Responses in which a record of the queried currency
\* does not parse are not valid responses: the call raises, see C14.)
C3_LatestDateWins ==
    (SelDone /\ Cardinality(ValidDates) > 1 /\ ~AnyUnparsable) =>
        /\ sel_result.kind = "row"
        /\ sel_result.row.rate_date \in ValidDates
        /\ \A d \in ValidDates : d <= sel_result.row.rate_date

\* Two valid rows of different dates, the later one second, and it is the
\* one returned.
C3_Witness ==
    /\ SelDone
    /\ Len(SelItemsOf) = 2
    /\ ValidAt = {1, 2}
    /\ DateOf(SelItemsOf[1]) < DateOf(SelItemsOf[2])
    /\ sel_result.kind = "row"
    /\ sel_result.row.rate_date = DateOf(SelItemsOf[2])

\* The response without the records of another currency.
RECURSIVE OnlyMatching(_)
OnlyMatching(items) ==
    IF items = <<>> THEN <<>>
    ELSE IF Head(items).isdict /\ ~Matches(Head(items))
         THEN OnlyMatching(Tail(items))
         ELSE <<Head(items)>> \o OnlyMatching(Tail(items))

\* C5: a record whose currency code (upper-cased) differs from the queried
\* currency (upper-cased) is never selected and never influences the result:
\* every row returned has the queried currency, and the result is the one
\* the same response gives without those records.
C5_OtherCurrencyExcluded ==
    SelDone =>
        /\ sel_result.kind = "row" =>
              sel_result.row.currency = Upper(sel_currency)
        /\ sel_payload.islist =>
              sel_result = SelectLatest(List(OnlyMatching(sel_payload.items)),
                                        sel_currency)

\* A well-formed record of another currency with the latest date, even one
\* placed first, next to a row of the queried currency that is returned.
C5_Witness ==
    /\ SelDone
    /\ Len(SelItemsOf) = 2
    /\ ~Matches(SelItemsOf[1])
    /\ SelItemsOf[1].isdict
    /\ DateParses(SelItemsOf[1]) /\ ValueParses(SelItemsOf[1])
    /\ Valid(SelItemsOf[2])
    /\ DateOf(SelItemsOf[1]) > DateOf(SelItemsOf[2])
    /\ sel_result.kind = "row"
    /\ sel_result.row.rate_date = DateOf(SelItemsOf[2])

\* The records that pass the filters before the weight is looked at.
Parsed(item) == Matches(item) /\ DateParses(item) /\ ValueParses(item)
ParsedAt == {k \in 1..Len(SelItemsOf) : Parsed(SelItemsOf[k])}

\* C6: a record whose weight is absent or non-numeric is kept with
\* effective weight 1, a record whose weight is <= 0 is excluded; hence
\* every row kept, and the row returned, has weight >= 1.
C6_WeightDefaultAndFilter ==
    (SelDone /\ ~AnyUnparsable) =>
        /\ Len(sel_rows) =
              Cardinality({k \in ParsedAt :
                              ~WeightNumeric(SelItemsOf[k])
                              \/ PyInt(SelItemsOf[k].fields["weight"]).val > 0})
        /\ \A k \in ParsedAt :
              ~WeightNumeric(SelItemsOf[k]) =>
                  \E j \in 1..Len(sel_rows) :
                      /\ sel_rows[j].weight = 1
                      /\ sel_rows[j].rate_date = DateOf(SelItemsOf[k])
                      /\ sel_rows[j].value.coef =
                            DecimalOf(PyStr(SelItemsOf[k].fields["value"])).coef
        /\ \A j \in 1..Len(sel_rows) : sel_rows[j].weight >= 1
        /\ sel_result.kind = "row" => sel_result.row.weight >= 1

\* A record of weight 0 is dropped and a record with a weight that is no
\* number is returned with weight 1.
C6_Witness ==
    /\ SelDone
    /\ Len(SelItemsOf) = 2
    /\ ParsedAt = {1, 2}
    /\ WeightNumeric(SelItemsOf[1])
    /\ PyInt(SelItemsOf[1].fields["weight"]).val = 0
    /\ Has(SelItemsOf[2], "weight") /\ ~WeightNumeric(SelItemsOf[2])
    /\ Len(sel_rows) = 1
    /\ sel_result.kind = "row"
    /\ sel_result.row.weight = 1

\* C7 as claimed: a response that is empty, is not an array, or contains
\* only invalid records gives None.
C7_InvalidGivesNone ==
    (SelDone /\ ValidAt = {}) => sel_result.kind = "none"

\* C7 amended: a response that is empty, is not an array, or contains only
\* invalid records gives None, unless one of them is a record of the queried
\* currency whose date and value are present and one of them does not
\* parse: then the call raises.
C7_InvalidGivesNoneUnlessUnparsable ==
    (SelDone /\ ValidAt = {}) =>
        /\ ~AnyUnparsable => sel_result.kind = "none"
        /\ AnyUnparsable => sel_result.kind = "raise"

\* Two records of the queried currency, one without value and one of
\* weight 0: None.
C7_Witness ==
    /\ SelDone
    /\ Len(SelItemsOf) = 2
    /\ Matches(SelItemsOf[1]) /\ DatePresent(SelItemsOf[1])
    /\ ~ValuePresent(SelItemsOf[1])
    /\ Parsed(SelItemsOf[2]) /\ EffectiveWeight(SelItemsOf[2]) <= 0
    /\ sel_result.kind = "none"

(***************************************************************************)
(* Properties of the command (Spec), continued.                            *)
(***************************************************************************)
\* C4: when the search for a currency is exhausted with no valid row, no
\* Currency or Rate is written or changed, the run does not fail (a warning
\* is written for that currency), and the loop goes on to the next
\* currency, which is processed and persisted as usual.
C4_NotFoundIsNotFatal ==
    [][GaveUp =>
          /\ db' = db
          /\ stored' = stored
          /\ phase' = "running"
          /\ error' = error
          /\ i' = i + 1
          /\ stdout' = Append(stdout, Line("warning", quotes[i], None,
                                           max_lookback_days))
          /\ (i < Len(quotes) =>
                 /\ current_lookback' = lookback_days
                 /\ ~latest'.isrow)]_vars

\* A run ended successfully in which the first currency was not found and
\* the second was found and persisted.
C4_Witness ==
    /\ phase = "done"
    /\ Len(stdout) = 3
    /\ stdout[1].kind = "warning" /\ stdout[1].ccy = "CNY"
    /\ stdout[2].kind = "stored" /\ stdout[2].ccy = "USD"
    /\ savepoint = EmptyDb
    /\ Len(db.currency) = 1 /\ db.currency[1].code = "USD"
    /\ Len(db.rate) = 1

\* No two rows of a table share the table's key.
KeyUnique(d) ==
    /\ \A a, b \in 1..Len(d.currency) :
          d.currency[a].code = d.currency[b].code => a = b
    /\ \A a, b \in 1..Len(d.rate) :
          (d.rate[a].currency = d.rate[b].currency
           /\ d.rate[a].date = d.rate[b].date) => a = b

\* C8: persisting is idempotent and key-unique.  In every state (after any
\* sequence of runs, within a run listing a currency twice) there is at
\* most one Currency per code and one Rate per (currency, date); and
\* persisting a found row twice leaves the tables as persisting it once
\* does, with one Rate for its key holding the row's unit and price.
C8_UpsertIdempotent ==
    /\ KeyUnique(db)
    /\ (InLoop /\ latest.isrow) =>
          LET once == Upsert(db, latest, to_dt)
              twice == Upsert(once.db, latest, to_dt)
          IN  /\ once.ok /\ twice.ok
              /\ twice.db = once.db
              /\ KeyUnique(twice.db)
              /\ HoldsValues(twice.db, latest)
              /\ Len(twice.db.rate) <= Len(db.rate) + 1

\* A run listed USD twice and found the same date twice, with another unit
\* and price the second time: one Rate, holding the second unit.
C8_Witness ==
    /\ phase = "done"
    /\ stored = 2
    /\ savepoint = EmptyDb
    /\ Len(db.currency) = 1
    /\ Len(db.rate) = 1
    /\ stdout[1].row.weight = 1
    /\ stdout[2].row.weight = 100
    /\ db.rate[1].unit = 100

\* C9: the command rejects the invocation with a configuration error
\* whenever the initial lookback is not positive or exceeds the maximum
\* lookback the caller supplied.
C9_BadLookbackRejected ==
    (runs > 0
     /\ (opts.lookback_days <= 0
         \/ opts.lookback_days > opts.max_lookback_days)) =>
        /\ phase = "failed"
        /\ error = "config"

\* The row of the last stored line of the output.
LastStored == stdout[CHOOSE k \in StoredLines : \A j \in StoredLines : j <= k].row

\* C10: for a currency whose search found a row, the tables hold a Currency
\* keyed by the row's code whose label is the row's displayName, or the
\* code when the displayName is empty, and a Rate keyed by that currency
\* and the row's own date (not the target date) with unit = the row's
\* weight and price = the row's value.
C10_TargetState ==
    (phase \in {"running", "done"} /\ StoredLines # {}) =>
        LET row == LastStored
            cs == {c \in 1..Len(db.currency) : db.currency[c].code = row.currency}
        IN  /\ Cardinality(cs) = 1
            /\ \A c \in cs :
                  /\ db.currency[c].label =
                        IF row.name_english = "" THEN row.currency
                        ELSE row.name_english
                  /\ LET rs == {r \in 1..Len(db.rate) :
                                   /\ db.rate[r].currency = c
                                   /\ db.rate[r].date = row.rate_date}
                     IN  /\ Cardinality(rs) = 1
                         /\ \A r \in rs :
                               /\ db.rate[r].unit = row.weight
                               /\ db.rate[r].price * Pow10(0 - row.value.exp)
                                     = row.value.coef * 1000

\* The scenario of the specification: target 2024-03-10, two empty answers,
\* then the USD row dated 2024-03-08, value 36.5, weight 1, 'US Dollar'.
C10_Witness ==
    /\ phase = "done"
    /\ quotes = <<"USD">>
    /\ to_dt = ToOrdinal(2024, 3, 10)
    /\ Len(sent) = 3
    /\ savepoint = EmptyDb
    /\ db.currency = <<[code |-> "USD", label |-> "US Dollar"]>>
    /\ db.rate = <<[currency |-> 1, date |-> ToOrdinal(2024, 3, 8),
                    unit |-> 1, price |-> 36500]>>

\* C11: a transport failure on a query is never treated as 'no data': the
\* window is not widened, the failed query is the last one issued (no
\* retry, no further query), and the failure ends the run as a hard error,
\* with the tables rolled back.
C11_TransportFailureAborts ==
    /\ \A k \in 1..Len(sent) :
          sent[k].http = "error" =>
              /\ k = Len(sent)
              /\ phase = "failed"
              /\ error = "transport"
              /\ current_lookback = WindowOf(sent[k])
              /\ ~latest.isrow
              /\ db = savepoint
    /\ (phase = "failed" /\ error = "transport") =>
          (sent # <<>> /\ Last(sent).http = "error")

\* A call failed on the third window of the second currency, after two
\* answers without data.
C11_Witness ==
    /\ phase = "failed"
    /\ error = "transport"
    /\ i = 2
    /\ stored = 1
    /\ Len(sent) = 3
    /\ sent[1].http = "ok" /\ sent[2].http = "ok" /\ sent[3].http = "error"
    /\ WindowOf(sent[3]) = 3 * lookback_days

\* C12: for each currency the windows of successive queries are strictly
\* increasing; once a query has given a valid row no further query is
\* issued for that currency, and that row is the one persisted.
C12_StopAtFirstRow ==
    /\ [](\A j, k \in 1..Len(sent) :
             j < k => WindowOf(sent[j]) < WindowOf(sent[k]))
    /\ [][(InLoop /\ latest.isrow) =>
             /\ stored' = stored + 1
             /\ i' = i + 1
             /\ stdout' = Append(stdout, Line("stored", quotes[i], latest,
                                              latest.weight))
             /\ HoldsValues(db', latest)
             /\ (sent' = sent \/ sent' = <<>>)]_vars

\* The row found on the third window of a currency was persisted, and the
\* three queries are all that was sent for it.
C12_Witness ==
    /\ phase = "done"
    /\ Len(quotes) = 1
    /\ Len(sent) = 3
    /\ stored = 1
    /\ stdout[1].kind = "stored"
    /\ HoldsValues(db, stdout[1].row)

(***************************************************************************)
(* Properties of the selection (SpecSel), continued.                       *)
(***************************************************************************)
\* The record's value is the empty string.
ValueEmpty(item) ==
    "value" \in item.keys /\ item.fields["value"] = Str("")

\* A record of the queried currency whose date or value is missing or
\* empty: absent key, null, or empty string.
MissingOrEmpty(item) ==
    /\ Matches(item)
    /\ ~DatePresent(item) \/ ~ValuePresent(item) \/ ValueEmpty(item)

\* The response without those records.
RECURSIVE WithoutMissing(_)
WithoutMissing(items) ==
    IF items = <<>> THEN <<>>
    ELSE IF MissingOrEmpty(Head(items))
         THEN WithoutMissing(Tail(items))
         ELSE <<Head(items)>> \o WithoutMissing(Tail(items))

\* C13: a record that passes the currency filter and whose date or value is
\* missing or empty (absent key, null, or empty string) is skipped without
\* raising, and the remaining records are still considered: the call gives
\* what it gives for the response without such records.
C13_MissingOrEmptySkipped ==
    (SelDone /\ sel_payload.islist) =>
        sel_result = SelectLatest(List(WithoutMissing(sel_payload.items)),
                                  sel_currency)

\* A record of the queried currency with a non-empty date and value, one of
\* which does not parse.
Offending(item) ==
    /\ Matches(item)
    /\ DatePresent(item)
    /\ ValuePresent(item) /\ ~ValueEmpty(item)
    /\ ~DateParses(item) \/ ~ValueParses(item)

FirstLatestAt ==
    CHOOSE k \in ValidAt :
        /\ \A j \in ValidAt : DateOf(SelItemsOf[j]) <= DateOf(SelItemsOf[k])
        /\ \A j \in ValidAt :
              DateOf(SelItemsOf[j]) = DateOf(SelItemsOf[k]) => k <= j

\* C15: when several valid rows share the greatest date, the row returned
\* is the first of them in payload order (the result is a function of the
\* payload and the currency, so two calls agree).
C15_FirstOfLatest ==
    (SelDone /\ ~AnyUnparsable /\ ValidAt # {}) =>
        /\ sel_result.kind = "row"
        /\ sel_result.row = ProcessItem(SelItemsOf[FirstLatestAt],
                                        sel_currency).row

\* Two valid rows of the same date and different values: the first is
\* returned.
C15_Witness ==
    /\ SelDone
    /\ ValidAt = {1, 2}
    /\ DateOf(SelItemsOf[1]) = DateOf(SelItemsOf[2])
    /\ SelItemsOf[1].fields["value"] # SelItemsOf[2].fields["value"]
    /\ sel_result.kind = "row"
    /\ sel_result.row.value.coef =
          DecimalOf(PyStr(SelItemsOf[1].fields["value"])).coef
    /\ sel_result.row.value.coef #
          DecimalOf(PyStr(SelItemsOf[2].fields["value"])).coef

(***************************************************************************)
(* Properties of the command (Spec): the windows and the dates.            *)
(***************************************************************************)
\* The invocation was given lookback options that satisfy the
\* preconditions of the search.
ValidLookbackOptions ==
    /\ runs > 0
    /\ opts.lookback_days > 0
    /\ opts.max_lookback_days >= opts.lookback_days

Ceil(a, b) == (a + b - 1) \div b

\* C16 (the bound): for initialLookbackDays > 0 and maxLookbackDays >=
\* initialLookbackDays, the search for one currency makes at most
\* ceil(maxLookbackDays / initialLookbackDays) queries, whatever the source
\* answers.
C16_QueryCountBounded ==
    (ValidLookbackOptions /\ phase # "idle") =>
        Len(sent) <= Ceil(opts.max_lookback_days, opts.lookback_days)

\* C18: every query of a run covers [targetDate - w, targetDate] with
\* initialLookbackDays <= w <= maxLookbackDays, the maximum the caller
\* configured: no query looks back further.
C18_WindowWithinConfiguredMax ==
    (ValidLookbackOptions /\ phase # "idle") =>
        \A k \in 1..Len(sent) :
            /\ sent[k].to = to_dt
            /\ sent[k].from = to_dt - WindowOf(sent[k])
            /\ opts.lookback_days <= WindowOf(sent[k])
            /\ WindowOf(sent[k]) <= opts.max_lookback_days

\* C19: every Rate a run persists is dated inside the closed window
\* [targetDate - window, targetDate] of the query that produced it, hence
\* not after the target date and not before targetDate - maxLookbackDays,
\* whatever dates the rows returned by the source carry.
C19_RateDateInsideWindow ==
    /\ (InLoop /\ latest.isrow) =>
          /\ Last(sent).from <= latest.rate_date
          /\ latest.rate_date <= Last(sent).to
    /\ phase \in {"running", "done"} =>
          \A k \in StoredLines :
              /\ to_dt - max_lookback_days <= stdout[k].row.rate_date
              /\ stdout[k].row.rate_date <= to_dt

(***************************************************************************)
(* Properties of the command as a function of the list (SpecOrd).          *)
(***************************************************************************)
\* The tables without their primary keys: the currencies, and the rates
\* with the code of their currency.
Content(d) ==
    [currency |-> {d.currency[k] : k \in 1..Len(d.currency)},
     rate |-> {[code |-> d.currency[d.rate[k].currency].code,
                date |-> d.rate[k].date, unit |-> d.rate[k].unit,
                price |-> d.rate[k].price] : k \in 1..Len(d.rate)}]

\* What a run found for the currency c.
OutcomeOf(run, c) ==
    LET k == CHOOSE x \in 1..Len(run.outcomes) : run.outcomes[x].ccy = c
    IN  [kind |-> run.outcomes[k].kind, row |-> run.outcomes[k].row]

\* What the search gives for the currency c when it is the only one.
Alone(c) ==
    LET o == OrdOption(<<c>>)
        f == Search(ord_src, c, _parse_date_yyyy_mm_dd(Strip(o.to_date)).val,
                    o.lookback_days, o.lookback_days)
    IN  [kind |-> f.kind, row |-> f.row]

\* C17: for a list of distinct codes and a source that answers by the query
\* alone, the runs over the list in any two orders end alike, and those that
\* end without error leave the same currencies and rates; what a run finds
\* for a currency is what the search finds for that currency alone.
C17_OrderIndependent ==
    ord_out.done =>
        \A p, q \in Orders(ord_quotes) :
            /\ ord_out.by[p].ok = ord_out.by[q].ok
            /\ ord_out.by[p].ok =>
                  /\ Content(ord_out.by[p].db) = Content(ord_out.by[q].db)
                  /\ \A k \in 1..Len(p) :
                        OutcomeOf(ord_out.by[p], p[k]) = Alone(p[k])

\* Three currencies run in six orders without error: one is found in the
\* first window, one in the second, one is not found, and one of the
\* currencies found was already in the tables.
C17_Witness ==
    /\ ord_out.done
    /\ Len(ord_quotes) = 3
    /\ ord_db # EmptyDb
    /\ ord_out.by[ord_quotes].ok
    /\ \E a, b, c \in OrdCodes :
          /\ Alone(a).kind = "row" /\ Alone(b).kind = "row"
          /\ Alone(a).row.rate_date > Alone(b).row.rate_date
          /\ Alone(c).kind = "none"

====
